---- MODULE Spec2Model ----
(***************************************************************************)
(* Model of src/src/App.tsx: the ring configurator.                         *)
(*                                                                         *)
(* Lengths are integers in micrometres (1 mm = 1000), so that every slider  *)
(* value (a multiple of 0.1 mm) and every product the code forms with it    *)
(* (x0.22, x0.12, x0.5, x0.55, x0.6, x0.3, /2) is an exact integer.         *)
(* Angles are integers in degrees (PI/2 = 90, 2*PI = 360).                  *)
(* A slot array is a sequence; the code's index i is position i + 1.       *)
(*                                                                         *)
(* A React render followed by its commit is one step: the render phase runs *)
(* Band, DecalMarks and Gems (each with its useMemo cache), the commit      *)
(* phase attaches the mesh to ringRef and Band's geometry to the mesh.      *)
(***************************************************************************)
EXTENDS Integers, Sequences, FiniteSets, TLC

VARIABLES
    innerDiameter,  \* useState(18.0)
    bandWidth,      \* useState(3.0)
    bandHeight,     \* useState(2.2)
    markSize,       \* useState(2.6)
    inside,         \* useState(false)
    goldColor,      \* useState("#d4af37")
    markColor,      \* useState("#3b3b3b")
    slots,          \* useState(initialSlots)
    ringRef,        \* useRef(null): <<>> is null, <<[geometry |-> g]>> the mesh
    bandMemo,       \* Band's useMemo cache: [deps, value, render]
    decalMemo,      \* DecalMarks's useMemo cache: [deps, value, render, band]
    gemsMemo,       \* Gems's useMemo cache: [deps, value, render]
    tests,          \* the diagnostics of the last render
    edits,          \* number of edits so far = number of the last render
    maxEdits        \* the number of edits explored from this start

vars == <<innerDiameter, bandWidth, bandHeight, markSize, inside, goldColor,
          markColor, slots, ringRef, bandMemo, decalMemo, gemsMemo, tests,
          edits, maxEdits>>

(***************************************************************************)
(* Bounds of the exploration.                                              *)
(***************************************************************************)
MaxEdits ==
    2

MaxPropEdits ==
    1

(***************************************************************************)
(* Domain data.                                                            *)
(***************************************************************************)
ZODIAC ==
    << [key |-> "aries",       glyph |-> "U+2648", label |-> "Aries"],
       [key |-> "taurus",      glyph |-> "U+2649", label |-> "Taurus"],
       [key |-> "gemini",      glyph |-> "U+264A", label |-> "Gemini"],
       [key |-> "cancer",      glyph |-> "U+264B", label |-> "Cancer"],
       [key |-> "leo",         glyph |-> "U+264C", label |-> "Leo"],
       [key |-> "virgo",       glyph |-> "U+264D", label |-> "Virgo"],
       [key |-> "libra",       glyph |-> "U+264E", label |-> "Libra"],
       [key |-> "scorpio",     glyph |-> "U+264F", label |-> "Scorpio"],
       [key |-> "sagittarius", glyph |-> "U+2650", label |-> "Sagittarius"],
       [key |-> "capricorn",   glyph |-> "U+2651", label |-> "Capricorn"],
       [key |-> "aquarius",    glyph |-> "U+2652", label |-> "Aquarius"],
       [key |-> "pisces",      glyph |-> "U+2653", label |-> "Pisces"] >>

\* ior is the refractive index times 100.
STONES ==
    << [key |-> "diamond",    label |-> "Diamond",    hex |-> "#ffffff", ior |-> 240],
       [key |-> "ruby",       label |-> "Ruby",       hex |-> "#E0115F", ior |-> 177],
       [key |-> "sapphire",   label |-> "Sapphire",   hex |-> "#0F52BA", ior |-> 177],
       [key |-> "emerald",    label |-> "Emerald",    hex |-> "#50C878", ior |-> 158],
       [key |-> "amethyst",   label |-> "Amethyst",   hex |-> "#9966CC", ior |-> 154],
       [key |-> "topaz",      label |-> "Topaz",      hex |-> "#FFB000", ior |-> 161],
       [key |-> "aquamarine", label |-> "Aquamarine", hex |-> "#7FFFD4", ior |-> 158],
       [key |-> "garnet",     label |-> "Garnet",     hex |-> "#9B111E", ior |-> 179],
       [key |-> "peridot",    label |-> "Peridot",    hex |-> "#B4C424", ior |-> 165],
       [key |-> "turquoise",  label |-> "Turquoise",  hex |-> "#30D5C8", ior |-> 161],
       [key |-> "citrine",    label |-> "Citrine",    hex |-> "#E4B700", ior |-> 155] >>

Min(a, b) == IF a <= b THEN a ELSE b

Max(a, b) == IF a >= b THEN a ELSE b

(***************************************************************************)
(* App's derived radii.                                                    *)
(***************************************************************************)
InnerR(d) == d \div 2

OuterR(d, w) == InnerR(d) + w

(***************************************************************************)
(* angleForIndex: start - i * step, in degrees.                            *)
(***************************************************************************)
angleForIndexReversed(i, total) ==
    LET step == 360 \div total
        start == 90
    IN  start + i * step

angleForIndex(i, total) ==
    LET step == 360 \div total
        start == 90 \* +Z is front/top
    IN  start - i * step \* clockwise

(***************************************************************************)
(* Band's useMemo body: the extruded geometry, by the values it is built    *)
(* from.                                                                   *)
(***************************************************************************)
BandGeometry(innerR, w, h) ==
    [ innerR        |-> innerR,
      outerR        |-> innerR + w,
      depth         |-> h,
      bevelT        |-> Min(350, (h * 22) \div 100),
      bevelS        |-> Min(600, (w * 12) \div 100),
      curveSegments |-> 128 ]

(***************************************************************************)
(* The canvas textures, by what is drawn on them.                          *)
(***************************************************************************)
makeZodiacTexture(signKey, color) ==
    LET hit == { k \in 1..Len(ZODIAC) : ZODIAC[k].key = signKey }
        glyph == IF hit = {} THEN "?"
                 ELSE ZODIAC[CHOOSE k \in hit : \A j \in hit : k <= j].glyph
    IN  [ drawn |-> glyph, color |-> color, font |-> "Cormorant Garamond" ]

makeTextTexture(text, color) ==
    [ drawn |-> text, color |-> color, font |-> "Inter" ]

(***************************************************************************)
(* DecalMarks's useMemo body.  mesh is what targetRef.current holds when    *)
(* the body runs: <<>> (null) or <<[geometry |-> g]>>.  Each decal keeps,   *)
(* as target, the geometry DecalGeometry clipped it against.               *)
(***************************************************************************)
DecalElements(mesh, innerR, outerR, size, sl, ins, mc) ==
    IF mesh = <<>> THEN <<>>
    ELSE
      LET depth == Max(600, (size * 50) \div 100)
          kept == SelectSeq([k \in 1..12 |-> k - 1],
                            LAMBDA i : i < Len(sl) /\ sl[i + 1].kind # "stone")
          item(i) ==
            LET s == sl[i + 1]
                a == angleForIndex(i, 12)
                radius == IF ins THEN innerR + 50 ELSE outerR - 50
            IN  [ key    |-> i,
                  target |-> mesh[1].geometry,
                  pos    |-> [angle |-> a, radius |-> radius],
                  normal |-> [angle |-> a, sign |-> IF ins THEN -1 ELSE 1],
                  size   |-> <<size, size, depth>>,
                  tex    |-> IF s.kind = "zodiac"
                             THEN makeZodiacTexture(s.value, mc)
                             ELSE makeTextTexture(s.value, mc) ]
      IN  [k \in 1..Len(kept) |-> item(kept[k])]

(***************************************************************************)
(* STONES.find((st) => st.key === s.value) || STONES[0]                    *)
(***************************************************************************)
\* Mutant of StoneFor: the lookup ignores the key.
StoneForFirst(key) ==
    STONES[1]

StoneFor(key) ==
    LET hit == { k \in 1..Len(STONES) : STONES[k].key = key }
    IN  IF hit = {} THEN STONES[1]
        ELSE STONES[CHOOSE k \in hit : \A j \in hit : k <= j]

(***************************************************************************)
(* Gems's useMemo body.                                                    *)
(***************************************************************************)
GemElements(innerR, outerR, height, size, sl, ins) ==
    LET kept == SelectSeq([k \in 1..12 |-> k - 1],
                          LAMBDA i : i < Len(sl) /\ sl[i + 1].kind = "stone")
        item(i) ==
          LET s == sl[i + 1]
              a == angleForIndex(i, 12)
              baseR == IF ins THEN innerR ELSE outerR
              gemSize == Max(800, (size * 55) \div 100)
              offset == (gemSize * 60) \div 100
              stone == StoneFor(s.value)
          IN  [ key        |-> i,
                normal     |-> [angle |-> a, sign |-> IF ins THEN -1 ELSE 1],
                distance   |-> baseR + (IF ins THEN -offset ELSE offset),
                gemSize    |-> gemSize,
                color      |-> stone.hex,
                ior        |-> stone.ior,
                seatHeight |-> Min(500, (height * 30) \div 100) ]
    IN  [k \in 1..Len(kept) |-> item(kept[k])]

(***************************************************************************)
(* The diagnostics.                                                        *)
(***************************************************************************)
\* Mutant of Diagnostics: the slot count check also requires valid slot values.
DiagnosticsCoupled(d, w, h, sl) ==
    LET valid(s) ==
          \/ s.kind = "zodiac" /\ \E z \in 1..Len(ZODIAC) : ZODIAC[z].key = s.value
          \/ s.kind = "stone" /\ \E st \in 1..Len(STONES) : STONES[st].key = s.value
          \/ s.kind = "text"
    IN  [ twelveSlots   |-> Len(sl) = 12 /\ \A k \in 1..Len(sl) : valid(sl[k]),
          geometryValid |-> OuterR(d, w) > InnerR(d) /\ d > 0 /\ h > 0,
          slotsValid    |-> \A k \in 1..Len(sl) : valid(sl[k]) ]

\* Mutant of Diagnostics: a text slot is valid only up to 6 characters.
DiagnosticsTextLength(d, w, h, sl) ==
    LET valid(s) ==
          \/ s.kind = "zodiac" /\ \E z \in 1..Len(ZODIAC) : ZODIAC[z].key = s.value
          \/ s.kind = "stone" /\ \E st \in 1..Len(STONES) : STONES[st].key = s.value
          \/ s.kind = "text" /\ Len(s.value) <= 6
    IN  [ twelveSlots   |-> Len(sl) = 12,
          geometryValid |-> OuterR(d, w) > InnerR(d) /\ d > 0 /\ h > 0,
          slotsValid    |-> \A k \in 1..Len(sl) : valid(sl[k]) ]

Diagnostics(d, w, h, sl) ==
    LET innerR == InnerR(d)
        outerR == OuterR(d, w)
    IN  [ twelveSlots   |-> Len(sl) = 12,
          geometryValid |-> outerR > innerR /\ d > 0 /\ h > 0,
          slotsValid    |->
            \A k \in 1..Len(sl) :
              \/ sl[k].kind = "zodiac"
                 /\ \E z \in 1..Len(ZODIAC) : ZODIAC[z].key = sl[k].value
              \/ sl[k].kind = "stone"
                 /\ \E st \in 1..Len(STONES) : STONES[st].key = sl[k].value
              \/ sl[k].kind = "text" ]

(***************************************************************************)
(* useMemo: the cached value is kept while the dependencies are unchanged.  *)
(* A cache that has never run has deps <<>>.                               *)
(***************************************************************************)
EmptyMemo == [deps |-> <<>>]

MeshIdentity(ref) == Len(ref)

(***************************************************************************)
(* The render of each component, as the cache it leaves.  n is the number   *)
(* of the render (0 is the first), kept with a value to tell when it was    *)
(* computed.                                                               *)
(***************************************************************************)
\* Mutant of BandRender: the band height is missing from the dependencies.
BandRenderStale(n, innerR, w, h, bm) ==
    LET deps == <<innerR, w>>
    IN  IF bm.deps = deps THEN bm
        ELSE [ deps |-> deps, value |-> BandGeometry(innerR, w, h), render |-> n ]

BandRender(n, innerR, w, h, bm) ==
    LET deps == <<innerR, w, h>>
    IN  IF bm.deps = deps THEN bm
        ELSE [ deps |-> deps, value |-> BandGeometry(innerR, w, h), render |-> n ]

\* ref is targetRef as the previous commit left it: DecalMarks reads it during
\* the render, before the commit attaches the mesh (first render) and Band's
\* new geometry.  band is the geometry Band returned in this same render.
DecalMarksRender(n, ref, band, innerR, outerR, size, sl, ins, mc, dm) ==
    LET deps == <<MeshIdentity(ref), innerR, outerR, ins, size, sl, mc>>
    IN  IF dm.deps = deps THEN dm
        ELSE [ deps |-> deps,
               value |-> DecalElements(ref, innerR, outerR, size, sl, ins, mc),
               render |-> n,
               mesh |-> ref,
               band |-> band ]

GemsRender(n, innerR, outerR, height, size, sl, ins, gm) ==
    LET deps == <<innerR, outerR, height, size, sl, ins>>
    IN  IF gm.deps = deps THEN gm
        ELSE [ deps |-> deps,
               value |-> GemElements(innerR, outerR, height, size, sl, ins),
               render |-> n ]

\* The commit: the mesh is attached to the ref, Band's geometry to the mesh.
Commit(geom) ==
    << [geometry |-> geom] >>

(***************************************************************************)
(* What the control panel can deliver.  Each slider is explored at its      *)
(* minimum, its initial value and its maximum; each select at a few of its  *)
(* options; the text input at strings of 0, 2, 6 and 7 characters (the      *)
(* input's maxLength lets at most 6 through).                              *)
(***************************************************************************)
InnerDiameterValues == {14000, 18000, 24000}

BandWidthValues == {1800, 3000, 6000}

BandHeightValues == {1200, 2200, 3500}

MarkSizeValues == {1000, 2600, 6000}

GoldColorValues == {"#d4af37", "#c0c0c0"}

MarkColorValues == {"#3b3b3b", "#000000"}

ZodiacOptions == {ZODIAC[1].key, ZODIAC[12].key}

StoneOptions == {STONES[1].key, STONES[2].key, STONES[11].key}

TextInputs == {"", "AB", "ZODIAC", "ZODIACS"}

maxLength ==
    6

SlotKinds == {"zodiac", "stone", "text"}

initialSlots ==
    [k \in 1..12 |-> [kind |-> "zodiac", value |-> ZODIAC[((k - 1) % 12) + 1].key]]

\* Mutant of updateSlot: the patched slot is appended instead of replaced.
updateSlotAppend(prev, idx, patch) ==
    Append(prev,
           [f \in DOMAIN prev[idx + 1] \cup DOMAIN patch |->
               IF f \in DOMAIN patch THEN patch[f] ELSE prev[idx + 1][f]])

(***************************************************************************)
(* updateSlot: prev.map((s, i) => (i === idx ? { ...s, ...patch } : s))    *)
(***************************************************************************)
updateSlot(prev, idx, patch) ==
    [k \in 1..Len(prev) |->
        IF k - 1 = idx
        THEN [f \in DOMAIN prev[k] \cup DOMAIN patch |->
                 IF f \in DOMAIN patch THEN patch[f] ELSE prev[k][f]]
        ELSE prev[k]]

(***************************************************************************)
(* The first render and commit of App with the given initial state.        *)
(***************************************************************************)
Mount(d, w, h, ms, ins, gc, mc, sl, limit) ==
    /\ innerDiameter = d
    /\ bandWidth = w
    /\ bandHeight = h
    /\ markSize = ms
    /\ inside = ins
    /\ goldColor = gc
    /\ markColor = mc
    /\ slots = sl
    /\ bandMemo = BandRender(0, InnerR(d), w, h, EmptyMemo)
    /\ decalMemo = DecalMarksRender(0, <<>>, bandMemo.value, InnerR(d),
                                    OuterR(d, w), ms, sl, ins, mc, EmptyMemo)
    /\ gemsMemo = GemsRender(0, InnerR(d), OuterR(d, w), h, ms, sl, ins, EmptyMemo)
    /\ tests = Diagnostics(d, w, h, sl)
    /\ ringRef = Commit(bandMemo.value)
    /\ edits = 0
    /\ maxEdits = limit

Init ==
    Mount(18000, 3000, 2200, 2600, FALSE, "#d4af37", "#3b3b3b", initialSlots,
          MaxEdits)

(***************************************************************************)
(* A state update followed by the render and commit it triggers.  An        *)
(* onChange handler runs only when the control's value changes.             *)
(***************************************************************************)
Rerender(d, w, h, ms, ins, gc, mc, sl) ==
    /\ edits < maxEdits
    /\ edits' = edits + 1
    /\ innerDiameter' = d
    /\ bandWidth' = w
    /\ bandHeight' = h
    /\ markSize' = ms
    /\ inside' = ins
    /\ goldColor' = gc
    /\ markColor' = mc
    /\ slots' = sl
    /\ bandMemo' = BandRender(edits', InnerR(d), w, h, bandMemo)
    /\ decalMemo' = DecalMarksRender(edits', ringRef, bandMemo'.value, InnerR(d),
                                     OuterR(d, w), ms, sl, ins, mc, decalMemo)
    /\ gemsMemo' = GemsRender(edits', InnerR(d), OuterR(d, w), h, ms, sl, ins,
                              gemsMemo)
    /\ tests' = Diagnostics(d, w, h, sl)
    /\ ringRef' = Commit(bandMemo'.value)
    /\ UNCHANGED maxEdits

SetInnerDiameter ==
    \E v \in InnerDiameterValues :
        /\ v # innerDiameter
        /\ Rerender(v, bandWidth, bandHeight, markSize, inside, goldColor,
                    markColor, slots)

SetBandWidth ==
    \E v \in BandWidthValues :
        /\ v # bandWidth
        /\ Rerender(innerDiameter, v, bandHeight, markSize, inside, goldColor,
                    markColor, slots)

SetBandHeight ==
    \E v \in BandHeightValues :
        /\ v # bandHeight
        /\ Rerender(innerDiameter, bandWidth, v, markSize, inside, goldColor,
                    markColor, slots)

SetMarkSize ==
    \E v \in MarkSizeValues :
        /\ v # markSize
        /\ Rerender(innerDiameter, bandWidth, bandHeight, v, inside, goldColor,
                    markColor, slots)

SetInside ==
    \E checked \in BOOLEAN :
        /\ checked # inside
        /\ Rerender(innerDiameter, bandWidth, bandHeight, markSize, checked,
                    goldColor, markColor, slots)

SetGoldColor ==
    \E c \in GoldColorValues :
        /\ c # goldColor
        /\ Rerender(innerDiameter, bandWidth, bandHeight, markSize, inside, c,
                    markColor, slots)

SetMarkColor ==
    \E c \in MarkColorValues :
        /\ c # markColor
        /\ Rerender(innerDiameter, bandWidth, bandHeight, markSize, inside,
                    goldColor, c, slots)

SetSlots(sl) ==
    Rerender(innerDiameter, bandWidth, bandHeight, markSize, inside, goldColor,
             markColor, sl)

\* Mutant of ChangeKind: the kind is patched alone and the old value is kept.
ChangeKindKeepValue ==
    \E i \in 0..(Len(slots) - 1), kind \in SlotKinds :
        /\ kind # slots[i + 1].kind
        /\ SetSlots(updateSlot(slots, i, [kind |-> kind]))

ChangeKind ==
    \E i \in 0..(Len(slots) - 1), kind \in SlotKinds :
        /\ kind # slots[i + 1].kind
        /\ SetSlots(updateSlot(slots, i,
              IF kind = "zodiac" THEN [kind |-> kind, value |-> ZODIAC[1].key]
              ELSE IF kind = "stone" THEN [kind |-> kind, value |-> STONES[1].key]
              ELSE [kind |-> kind, value |-> "AB"]))

SelectZodiac ==
    \E i \in 0..(Len(slots) - 1), v \in ZodiacOptions :
        /\ slots[i + 1].kind = "zodiac"
        /\ v # slots[i + 1].value
        /\ SetSlots(updateSlot(slots, i, [value |-> v]))

SelectStone ==
    \E i \in 0..(Len(slots) - 1), v \in StoneOptions :
        /\ slots[i + 1].kind = "stone"
        /\ v # slots[i + 1].value
        /\ SetSlots(updateSlot(slots, i, [value |-> v]))

InputText ==
    \E i \in 0..(Len(slots) - 1), v \in TextInputs :
        /\ slots[i + 1].kind = "text"
        /\ Len(v) <= maxLength
        /\ v # slots[i + 1].value
        /\ SetSlots(updateSlot(slots, i, [value |-> v]))

Next ==
    \/ SetInnerDiameter
    \/ SetBandWidth
    \/ SetBandHeight
    \/ SetMarkSize
    \/ SetInside
    \/ SetGoldColor
    \/ SetMarkColor
    \/ ChangeKind
    \/ SelectZodiac
    \/ SelectStone
    \/ InputText

Spec == Init /\ [][Next]_vars

(***************************************************************************)
(* The components as functions of their props: the same program started     *)
(* from any of a set of parameter values and slot arrays, among them the    *)
(* degenerate ones no control delivers (zero width or height, 11 slots, an  *)
(* unknown stone key, a text of 7 characters).                             *)
(***************************************************************************)
PropBandWidths == {0, 3000}

PropBandHeights == {0, 2200}

PropSlotArrays ==
    { initialSlots,
      SubSeq(initialSlots, 1, 11),
      [initialSlots EXCEPT ![4] = [kind |-> "stone", value |-> "ruby"]],
      [initialSlots EXCEPT ![4] = [kind |-> "stone", value |-> "moonstone"]],
      [initialSlots EXCEPT ![6] = [kind |-> "text", value |-> "ZODIAC"]],
      [initialSlots EXCEPT ![6] = [kind |-> "text", value |-> "ZODIACS"]] }

InitProps ==
    \E w \in PropBandWidths, h \in PropBandHeights, sl \in PropSlotArrays :
        Mount(18000, w, h, 2600, FALSE, "#d4af37", "#3b3b3b", sl, MaxPropEdits)

SpecProps == InitProps /\ [][Next]_vars

(***************************************************************************)
(* C1.  After any edit the band mesh, the decals and the gem placements are *)
(* all recomputed: the displayed decals (and gem placements) are never ones *)
(* computed in a render earlier than the render that built the band         *)
(* geometry now on display.                                                *)
(***************************************************************************)
C1_OutputsNotOlderThanBand ==
    /\ decalMemo.render >= bandMemo.render
    /\ gemsMemo.render >= bandMemo.render

(***************************************************************************)
(* C2.  In every rebuild the mesh DecalMarks projects onto holds the        *)
(* geometry Band produced in that same rebuild: never an earlier geometry,  *)
(* never no mesh at all.                                                   *)
(***************************************************************************)
C2_DecalsProjectOnSameRebuildBand ==
    decalMemo.mesh = Commit(decalMemo.band)

(***************************************************************************)
(* C3.  Rebuilding with identical (params, slots) yields identical outputs, *)
(* whatever preceded: whenever the parameters and slots are those of the    *)
(* initial state, the decals, gem placements and diagnostics on display are *)
(* those the first rebuild produced from them.                             *)
(***************************************************************************)
C3_SameInputsSameOutputs ==
    LET d == 18000
        w == 3000
        h == 2200
        ms == 2600
        first == DecalMarksRender(0, <<>>, BandGeometry(InnerR(d), w, h), InnerR(d),
                                  OuterR(d, w), ms, initialSlots, FALSE, "#3b3b3b",
                                  EmptyMemo)
    IN  ( /\ <<innerDiameter, bandWidth, bandHeight, markSize>> = <<d, w, h, ms>>
          /\ <<inside, goldColor, markColor>> = <<FALSE, "#d4af37", "#3b3b3b">>
          /\ slots = initialSlots )
        => /\ decalMemo.value = first.value
           /\ gemsMemo.value = GemElements(InnerR(d), OuterR(d, w), h, ms,
                                           initialSlots, FALSE)
           /\ tests = Diagnostics(d, w, h, initialSlots)

(***************************************************************************)
(* C4.  For every 12-entry slot array the decals on display are exactly one *)
(* per zodiac or text slot and none for a stone slot; for the initial array *)
(* (the 12 zodiac signs) there are exactly 12.                             *)
(***************************************************************************)
C4_OneDecalPerMarkSlot ==
    Len(slots) = 12 =>
        /\ \A i \in 0..11 :
             Cardinality({ j \in DOMAIN decalMemo.value : decalMemo.value[j].key = i })
               = IF slots[i + 1].kind = "stone" THEN 0 ELSE 1
        /\ slots = initialSlots => Len(decalMemo.value) = 12

(***************************************************************************)
(* C5.  angleForIndex(0,12) is the reference angle (+90 degrees),           *)
(* angleForIndex(i,12) is the reference angle minus i times 30 degrees      *)
(* (mod 360) for every i in 0..11, and the 12 angles are pairwise distinct  *)
(* mod 360; so are the angles of the decals and gems on display, each of    *)
(* which sits at the angle of its slot index.                              *)
(***************************************************************************)
C5_AngleBijection ==
    LET placed == { [key |-> decalMemo.value[j].key,
                     angle |-> decalMemo.value[j].pos.angle] :
                       j \in DOMAIN decalMemo.value }
                  \cup
                  { [key |-> gemsMemo.value[j].key,
                     angle |-> gemsMemo.value[j].normal.angle] :
                       j \in DOMAIN gemsMemo.value }
    IN  /\ angleForIndex(0, 12) = 90
        /\ \A i \in 0..11 : angleForIndex(i, 12) % 360 = (90 - i * 30) % 360
        /\ \A i, j \in 0..11 :
             i # j => angleForIndex(i, 12) % 360 # angleForIndex(j, 12) % 360
        /\ \A p \in placed : p.angle % 360 = (90 - p.key * 30) % 360
        /\ \A p, q \in placed : p.key # q.key => p.angle % 360 # q.angle % 360

\* C5 witness: all 12 slots are placed, decals and a gem among them.
C5_Witness ==
    /\ Len(decalMemo.value) = 11
    /\ Len(gemsMemo.value) = 1
    /\ \E j \in DOMAIN decalMemo.value :
         decalMemo.value[j].key = 11 /\ decalMemo.value[j].pos.angle = -240

(***************************************************************************)
(* C6.  The slot array has exactly 12 entries initially and after every     *)
(* slot edit, and an edit changes at most one position: no entry is added,  *)
(* removed or moved.                                                       *)
(***************************************************************************)
C6_TwelveSlotsAlways ==
    /\ Len(slots) = 12
    /\ [][ /\ Len(slots') = 12
           /\ Cardinality({ k \in 1..12 : slots'[k] # slots[k] }) <= 1 ]_vars

\* C6 witness: two slot edits later the array still has 12 entries.
C6_Witness ==
    /\ Len(slots) = 12
    /\ slots[4].kind = "stone"
    /\ slots[12].kind = "text"

(***************************************************************************)
(* C7.  The three diagnostics are independent.  With 12 entries of which    *)
(* one holds an unrecognized stone key, slotsValid is false while           *)
(* twelveSlots and geometryValid are what they are for the same array with  *)
(* a recognized key; with valid geometry and 11 entries twelveSlots is      *)
(* false.  twelveSlots is the same for every array of the same length and   *)
(* any band parameters, geometryValid the same for any slot array, and      *)
(* slotsValid the same for any band parameters.                            *)
(***************************************************************************)
C7_DiagnosticsIndependent ==
    LET known(k) == \E st \in 1..Len(STONES) : STONES[st].key = slots[k].value
        unknownStone == \E k \in 1..Len(slots) :
                            slots[k].kind = "stone" /\ ~known(k)
        recognized == [k \in 1..Len(slots) |->
                          IF slots[k].kind = "stone" /\ ~known(k)
                          THEN [kind |-> "stone", value |-> STONES[1].key]
                          ELSE slots[k]]
        again == Diagnostics(innerDiameter, bandWidth, bandHeight, recognized)
        widths == PropBandWidths \cup BandWidthValues
        heights == PropBandHeights \cup BandHeightValues
    IN  /\ (Len(slots) = 12 /\ unknownStone) =>
              /\ ~tests.slotsValid
              /\ tests.twelveSlots
              /\ tests.twelveSlots = again.twelveSlots
              /\ tests.geometryValid = again.geometryValid
              /\ again.slotsValid
        /\ (Len(slots) = 11 /\ bandWidth > 0 /\ bandHeight > 0) =>
              /\ ~tests.twelveSlots
              /\ tests.geometryValid
        /\ \A sl \in PropSlotArrays :
              LET other == Diagnostics(innerDiameter, bandWidth, bandHeight, sl)
              IN  /\ Len(sl) = Len(slots) => other.twelveSlots = tests.twelveSlots
                  /\ other.geometryValid = tests.geometryValid
        /\ \A w \in widths, h \in heights :
              LET other == Diagnostics(innerDiameter, w, h, slots)
              IN  /\ other.slotsValid = tests.slotsValid
                  /\ other.twelveSlots = tests.twelveSlots

\* C7 witness: 12 entries, an unrecognized stone key, valid geometry.
C7_Witness ==
    /\ Len(slots) = 12
    /\ slots[4] = [kind |-> "stone", value |-> "moonstone"]
    /\ ~tests.slotsValid
    /\ tests.twelveSlots
    /\ tests.geometryValid

C10_GemPerStoneSlot ==
    \A i \in 0..11 :
        LET hits == { j \in DOMAIN gemsMemo.value : gemsMemo.value[j].key = i }
        IN  IF i < Len(slots) /\ slots[i + 1].kind = "stone"
            THEN /\ Cardinality(hits) = 1
                 /\ \A j \in hits :
                      LET g == gemsMemo.value[j]
                          entry == { k \in 1..Len(STONES) :
                                       STONES[k].key = slots[i + 1].value }
                      IN  /\ g.normal.angle = angleForIndex(i, 12)
                          /\ g.normal.sign = IF inside THEN -1 ELSE 1
                          /\ \A k \in entry :
                               g.color = STONES[k].hex /\ g.ior = STONES[k].ior
                          /\ entry = {} =>
                               g.color = "#ffffff" /\ g.ior = 240
                          /\ slots[i + 1].value = "ruby" => g.color = "#E0115F"
            ELSE hits = {}

\* C10 witness: an unknown stone key at slot 3 in inside mode, placed as a
\* diamond with the inward normal.
C10_Witness ==
    /\ inside
    /\ slots[4] = [kind |-> "stone", value |-> "moonstone"]
    /\ Len(gemsMemo.value) = 1
    /\ gemsMemo.value[1].key = 3
    /\ gemsMemo.value[1].normal = [angle |-> 0, sign |-> -1]
    /\ gemsMemo.value[1].color = "#ffffff"

(***************************************************************************)
(* C11.  In every state reached from the initial state by control-panel     *)
(* edits the three diagnostics twelveSlots, geometryValid and slotsValid    *)
(* are true, the sliders are within their ranges, and every slot pairs its  *)
(* kind with a value of that kind's catalog (a text of at most 6            *)
(* characters for kind text).  An edit that changes a slot's kind sets its  *)
(* value, in the same update, to the new kind's default (aries, diamond,    *)
(* "AB"), and an edit changes no slot but the one it addresses.             *)
(***************************************************************************)
C11_Good(t, sl, d, w, h) ==
    LET inCatalog(s) ==
          \/ s.kind = "zodiac" /\ \E z \in 1..Len(ZODIAC) : ZODIAC[z].key = s.value
          \/ s.kind = "stone" /\ \E st \in 1..Len(STONES) : STONES[st].key = s.value
          \/ s.kind = "text" /\ Len(s.value) <= maxLength
    IN  /\ t.twelveSlots /\ t.geometryValid /\ t.slotsValid
        /\ Len(sl) = 12
        /\ \A k \in 1..Len(sl) : inCatalog(sl[k])
        /\ d \in 14000..24000 /\ w \in 1800..6000 /\ h \in 1200..3500

C11_Default(kind) ==
    IF kind = "zodiac" THEN "aries" ELSE IF kind = "stone" THEN "diamond" ELSE "AB"

C11_PanelKeepsDiagnosticsTrue ==
    /\ C11_Good(tests, slots, innerDiameter, bandWidth, bandHeight)
    /\ [][ /\ C11_Good(tests', slots', innerDiameter', bandWidth', bandHeight')
           /\ \A k \in 1..12 :
                slots'[k].kind # slots[k].kind =>
                  slots'[k].value = C11_Default(slots'[k].kind)
           /\ \A j, k \in 1..12 :
                (slots'[j] # slots[j] /\ slots'[k] # slots[k]) => j = k
         ]_vars

\* C11 witness: slot 4 turned into a stone (diamond by default) and then set
\* to ruby, with all three diagnostics true.
C11_Witness ==
    /\ edits = 2
    /\ slots[4] = [kind |-> "stone", value |-> "ruby"]
    /\ \A k \in 1..12 : k # 4 => slots[k] = initialSlots[k]
    /\ tests.twelveSlots /\ tests.geometryValid /\ tests.slotsValid

====
